---------------------------- MODULE Spec2Model ----------------------------
(***************************************************************************)
(* Model of Lib/fontTools/ttLib/tables/TupleVariation.py: the packed delta *)
(* codec, the packed point-number codec and TupleVariation.compile.        *)
(*                                                                         *)
(* Bytes are integers 0..255 and byte strings are sequences of them.       *)
(* Python positions are 0-based and are kept 0-based here: the element at  *)
(* Python index i of a sequence s is s[i+1].                               *)
(***************************************************************************)
EXTENDS Integers, Sequences, FiniteSets, TLC

VARIABLES
  pc,               \* position of the driver: which call runs next
  deltas,           \* compileDeltaValues_: the input list
  pos,              \* compileDeltaValues_: loop variable pos
  stream,           \* compileDeltaValues_: bytes written to the stream so far
  runs,             \* history: one record per run-encoder call of the loop
  data,             \* decoders: the byte string being decoded
  result,           \* decoders: the local list `result`
  rpos,             \* decoders: the local `pos`
  points,           \* compilePoints: the point set
  numPoints,        \* numPointsInGlyph / decompilePoints_'s numPoints
  numPointsInData,  \* decompilePoints_: the count prefix
  ret,              \* value returned (or exception raised) by the last call
  tv,               \* the TupleVariation: [axes, coordinates]
  ctx,              \* compile arguments: [axisTags, sharedCoordIndices, sharedPoints]
  compiled,         \* what TupleVariation.compile returned or raised
  decoded           \* what decoding (header, auxData) gave

vars == <<pc, deltas, pos, stream, runs, data, result, rpos, points, numPoints,
          numPointsInData, ret, tv, ctx, compiled, decoded>>

deltaVars == <<deltas, pos, stream, runs>>
pointVars == <<points, numPoints, numPointsInData>>
tupleVars == <<tv, ctx, compiled, decoded>>

(***************************************************************************)
(* Module constants of TupleVariation.py.                                  *)
(***************************************************************************)
EMBEDDED_PEAK_TUPLE == 32768
INTERMEDIATE_REGION == 16384
PRIVATE_POINT_NUMBERS == 8192

DELTAS_ARE_ZERO == 128
DELTAS_ARE_WORDS == 64
DELTA_RUN_COUNT_MASK == 63

POINTS_ARE_WORDS == 128
POINT_RUN_COUNT_MASK == 127

MAX_RUN_LENGTH == 127

(***************************************************************************)
(* Bit operations, for a single-bit flag and for a mask of the form 2^n-1. *)
(***************************************************************************)
HasFlag(x, flag) == (x \div flag) % 2 = 1
SetFlag(x, flag) == IF HasFlag(x, flag) THEN x ELSE x + flag
LowBits(x, mask) == x % (mask + 1)

(***************************************************************************)
(* struct.pack / array decoding of signed values.                          *)
(***************************************************************************)
PackSignedByte(v) == <<v % 256>>
PackSignedWord(v) == <<(v % 65536) \div 256, (v % 65536) % 256>>
MutUnpackSignedByte(b) == b
UnpackSignedByte(b) == IF b >= 128 THEN b - 256 ELSE b
UnpackSignedWord(hi, lo) ==
  IF hi * 256 + lo >= 32768 THEN hi * 256 + lo - 65536 ELSE hi * 256 + lo

\* Python slice data[a:b] (0-based, clipped to the length of data)
Slice(s, a, b) ==
  LET hi == IF b < Len(s) THEN b ELSE Len(s)
  IN IF a >= hi THEN <<>> ELSE SubSeq(s, a + 1, hi)

RECURSIVE Concat(_, _)
\* bytesjoin of f(i) for i in 1..n
Concat(f, n) == IF n = 0 THEN <<>> ELSE Concat(f, n - 1) \o f[n]

(***************************************************************************)
(* Delta encoder.                                                          *)
(***************************************************************************)
MutZeroRunContinues(ds, p, runLength) ==
  p < Len(ds) /\ runLength < 65 /\ ds[p + 1] = 0
\* loop condition of encodeDeltaRunAsZeroes_
ZeroRunContinues(ds, p, runLength) ==
  p < Len(ds) /\ runLength < 64 /\ ds[p + 1] = 0

RECURSIVE ZeroRunEnd(_, _, _)
ZeroRunEnd(ds, p, runLength) ==
  IF ZeroRunContinues(ds, p, runLength)
  THEN ZeroRunEnd(ds, p + 1, runLength + 1)
  ELSE p

encodeDeltaRunAsZeroes_(ds, offset, st) ==
  LET p == ZeroRunEnd(ds, offset, 0)
      runLength == p - offset
  IN IF runLength >= 1 /\ runLength <= 64
     THEN [ok |-> TRUE, pos |-> p,
           stream |-> st \o <<DELTAS_ARE_ZERO + (runLength - 1)>>]
     ELSE [ok |-> FALSE, pos |-> offset, stream |-> st]

MutByteRunContinues(ds, p, runLength) ==
  /\ p < Len(ds)
  /\ runLength < 64
  /\ ~(ds[p + 1] < -128 \/ ds[p + 1] > 127)
  /\ ~(ds[p + 1] = 0)
\* loop condition and the two breaks of encodeDeltaRunAsBytes_
ByteRunContinues(ds, p, runLength) ==
  /\ p < Len(ds)
  /\ runLength < 64
  /\ ~(ds[p + 1] < -128 \/ ds[p + 1] > 127)
  /\ ~(ds[p + 1] = 0 /\ p + 1 < Len(ds) /\ ds[p + 2] = 0)

RECURSIVE ByteRunEnd(_, _, _)
ByteRunEnd(ds, p, runLength) ==
  IF ByteRunContinues(ds, p, runLength)
  THEN ByteRunEnd(ds, p + 1, runLength + 1)
  ELSE p

encodeDeltaRunAsBytes_(ds, offset, st) ==
  LET p == ByteRunEnd(ds, offset, 0)
      runLength == p - offset
  IN IF runLength >= 1 /\ runLength <= 64
     THEN [ok |-> TRUE, pos |-> p,
           stream |-> st \o <<runLength - 1>>
                        \o Concat([i \in 1..runLength |-> PackSignedByte(ds[offset + i])],
                                  runLength)]
     ELSE [ok |-> FALSE, pos |-> offset, stream |-> st]

isByteEncodable(value) == value >= -128 /\ value <= 127

\* loop condition and the two breaks of encodeDeltaRunAsWords_
WordRunContinues(ds, p, runLength) ==
  /\ p < Len(ds)
  /\ runLength < 64
  /\ ~(ds[p + 1] = 0)
  /\ ~(isByteEncodable(ds[p + 1]) /\ p + 1 < Len(ds) /\ isByteEncodable(ds[p + 2]))

RECURSIVE WordRunEnd(_, _, _)
WordRunEnd(ds, p, runLength) ==
  IF WordRunContinues(ds, p, runLength)
  THEN WordRunEnd(ds, p + 1, runLength + 1)
  ELSE p

encodeDeltaRunAsWords_(ds, offset, st) ==
  LET p == WordRunEnd(ds, offset, 0)
      runLength == p - offset
  IN IF runLength >= 1 /\ runLength <= 64
     THEN [ok |-> TRUE, pos |-> p,
           stream |-> st \o <<DELTAS_ARE_WORDS + (runLength - 1)>>
                        \o Concat([i \in 1..runLength |-> PackSignedWord(ds[offset + i])],
                                  runLength)]
     ELSE [ok |-> FALSE, pos |-> offset, stream |-> st]

\* one iteration of the while loop of compileDeltaValues_
CompileDeltaStep(ds, p, st) ==
  IF ds[p + 1] = 0
  THEN encodeDeltaRunAsZeroes_(ds, p, st)
  ELSE IF ds[p + 1] >= -128 /\ ds[p + 1] <= 127
       THEN encodeDeltaRunAsBytes_(ds, p, st)
       ELSE encodeDeltaRunAsWords_(ds, p, st)

RECURSIVE CompileDeltaLoop(_, _, _)
CompileDeltaLoop(ds, p, st) ==
  IF p < Len(ds)
  THEN LET r == CompileDeltaStep(ds, p, st)
       IN IF r.ok THEN CompileDeltaLoop(ds, r.pos, r.stream)
          ELSE [ok |-> FALSE, err |-> "AssertionError", data |-> r.stream]
  ELSE [ok |-> TRUE, err |-> "", data |-> st]

\* compileDeltaValues_(deltas): the bytes, or the exception raised
compileDeltaValues_(ds) == CompileDeltaLoop(ds, 0, <<>>)

(***************************************************************************)
(* Delta decoder.                                                          *)
(***************************************************************************)
\* one iteration of the while loop of decompileDeltas_
DecompileDeltasStep(d, p, res) ==
  IF p >= Len(d)
  THEN [ok |-> FALSE, err |-> "IndexError", pos |-> p, result |-> res]
  ELSE
    LET runHeader == d[p + 1]
        numDeltasInRun == LowBits(runHeader, DELTA_RUN_COUNT_MASK) + 1
        isWords == HasFlag(runHeader, DELTAS_ARE_WORDS)
        deltasSize == IF isWords THEN numDeltasInRun * 2 ELSE numDeltasInRun
        raw == Slice(d, p + 1, p + 1 + deltasSize)
    IN IF HasFlag(runHeader, DELTAS_ARE_ZERO)
       THEN [ok |-> TRUE, err |-> "", pos |-> p + 1,
             result |-> res \o [i \in 1..numDeltasInRun |-> 0]]
       ELSE IF isWords /\ Len(raw) % 2 = 1
       THEN [ok |-> FALSE, err |-> "ValueError", pos |-> p + 1, result |-> res]
       ELSE IF Len(raw) # deltasSize
       THEN [ok |-> FALSE, err |-> "AssertionError", pos |-> p + 1, result |-> res]
       ELSE [ok |-> TRUE, err |-> "", pos |-> p + 1 + deltasSize,
             result |-> res \o
               [i \in 1..numDeltasInRun |->
                  IF isWords THEN UnpackSignedWord(raw[2 * i - 1], raw[2 * i])
                  ELSE UnpackSignedByte(raw[i])]]

RECURSIVE DecompileDeltasLoop(_, _, _, _)
DecompileDeltasLoop(numDeltas, d, p, res) ==
  IF Len(res) < numDeltas
  THEN LET r == DecompileDeltasStep(d, p, res)
       IN IF r.ok THEN DecompileDeltasLoop(numDeltas, d, r.pos, r.result)
          ELSE [ok |-> FALSE, err |-> r.err, result |-> r.result, pos |-> r.pos]
  ELSE IF Len(res) = numDeltas
       THEN [ok |-> TRUE, err |-> "", result |-> res, pos |-> p]
       ELSE [ok |-> FALSE, err |-> "AssertionError", result |-> res, pos |-> p]

\* decompileDeltas_(numDeltas, data, offset): (result, pos), or the exception
decompileDeltas_(numDeltas, d, offset) == DecompileDeltasLoop(numDeltas, d, offset, <<>>)


(***************************************************************************)
(* Inputs of the delta codec: every sequence of at most MaxLen values over *)
(* DeltaVals (zero, both ends of the signed byte range, the first word     *)
(* values beyond them, both ends of the signed word range), the sequences  *)
(* quoted in the comments and tests, and long constant stretches around    *)
(* the 64-value run limit followed or preceded by a short tail.            *)
(***************************************************************************)
MaxLen == 4

DeltaVals == {-32768, -129, -128, 0, 15, 127, 128, 32767}

Rep(v, n) == [i \in 1..n |-> v]

SeqsUpTo(S, n) == UNION {[1..k -> S] : k \in 0..n}

DeltaExamples ==
  { <<15, 15, 0, 15, 15>>, <<15, 15, 0, 0, 15, 15>>, <<0, 0, 0, 0, 5, 5>>,
    <<26214, 30583>>, <<26214, 2, 30583>>, <<26214, 0, 30583>>, <<1, 2, 3>>,
    <<15, 0, 15, 0, 0, 15>> }

DeltaTails == { <<>>, <<0>>, <<0, 0>>, <<-1>>, <<300>>, <<-1, 1>> }

LongDeltaInputs ==
  { Rep(v, n) \o t : v \in {0, -1, 300}, n \in {63, 64, 65, 129}, t \in DeltaTails }
  \cup { t \o Rep(v, n) : v \in {0, -1, 300}, n \in {64, 65}, t \in DeltaTails }

DeltaInputs == SeqsUpTo(DeltaVals, MaxLen) \cup DeltaExamples \cup LongDeltaInputs

NoRet == [ok |-> FALSE, err |-> "none"]
NoTV == [axes |-> <<>>, coordinates |-> <<>>]
NoCtx == [axisTags |-> <<>>, sharedCoordIndices |-> <<>>, sharedPoints |-> <<"None">>]

InitDeltas ==
  /\ pc = "compile"
  /\ deltas \in DeltaInputs
  /\ pos = 0
  /\ stream = <<>>
  /\ runs = <<>>
  /\ data = <<>>
  /\ result = <<>>
  /\ rpos = 0
  /\ ret = NoRet
  /\ points = {}
  /\ numPoints = 0
  /\ numPointsInData = 0
  /\ tv = NoTV
  /\ ctx = NoCtx
  /\ compiled = NoRet
  /\ decoded = NoRet

\* the effect of one run-encoder call made by the loop of compileDeltaValues_
RunEncoded(r) ==
  /\ IF r.ok
     THEN /\ pos' = r.pos
          /\ stream' = r.stream
          /\ runs' = Append(runs, [offset |-> pos, pos |-> r.pos,
                                   written |-> SubSeq(r.stream, Len(stream) + 1,
                                                      Len(r.stream))])
          /\ pc' = pc
          /\ ret' = ret
     ELSE /\ pc' = "raised"
          /\ ret' = [ok |-> FALSE, err |-> "AssertionError"]
          /\ UNCHANGED <<pos, stream, runs>>
  /\ UNCHANGED <<deltas, data, result, rpos, pointVars, tupleVars>>

EncodeZeroes ==
  /\ pc = "compile"
  /\ pos < Len(deltas)
  /\ deltas[pos + 1] = 0
  /\ RunEncoded(encodeDeltaRunAsZeroes_(deltas, pos, stream))

EncodeBytes ==
  /\ pc = "compile"
  /\ pos < Len(deltas)
  /\ deltas[pos + 1] # 0
  /\ deltas[pos + 1] >= -128 /\ deltas[pos + 1] <= 127
  /\ RunEncoded(encodeDeltaRunAsBytes_(deltas, pos, stream))

EncodeWords ==
  /\ pc = "compile"
  /\ pos < Len(deltas)
  /\ deltas[pos + 1] # 0
  /\ ~(deltas[pos + 1] >= -128 /\ deltas[pos + 1] <= 127)
  /\ RunEncoded(encodeDeltaRunAsWords_(deltas, pos, stream))

\* compileDeltaValues_ returns stream.getvalue(); the bytes are handed to
\* decompileDeltas_(len(deltas), data, 0)
CompileDeltasReturn ==
  /\ pc = "compile"
  /\ ~(pos < Len(deltas))
  /\ pc' = "decompile"
  /\ data' = stream
  /\ result' = <<>>
  /\ rpos' = 0
  /\ UNCHANGED <<deltaVars, ret, pointVars, tupleVars>>

DecodeDeltaRun ==
  /\ pc = "decompile"
  /\ Len(result) < Len(deltas)
  /\ LET r == DecompileDeltasStep(data, rpos, result)
     IN IF r.ok
        THEN /\ result' = r.result
             /\ rpos' = r.pos
             /\ UNCHANGED <<pc, ret>>
        ELSE /\ pc' = "raised"
             /\ ret' = [ok |-> FALSE, err |-> r.err]
             /\ UNCHANGED <<result, rpos>>
  /\ UNCHANGED <<deltaVars, data, pointVars, tupleVars>>

DecompileDeltasReturn ==
  /\ pc = "decompile"
  /\ ~(Len(result) < Len(deltas))
  /\ IF Len(result) = Len(deltas)
     THEN /\ pc' = "done"
          /\ ret' = [ok |-> TRUE, err |-> "", result |-> result, pos |-> rpos]
     ELSE /\ pc' = "raised"
          /\ ret' = [ok |-> FALSE, err |-> "AssertionError"]
  /\ UNCHANGED <<deltaVars, data, result, rpos, pointVars, tupleVars>>

NextDeltas ==
  \/ EncodeZeroes
  \/ EncodeBytes
  \/ EncodeWords
  \/ CompileDeltasReturn
  \/ DecodeDeltaRun
  \/ DecompileDeltasReturn

SpecDeltas == InitDeltas /\ [][NextDeltas]_vars

(***************************************************************************)
(* Properties of the delta codec.                                          *)
(***************************************************************************)

\* C1: delta round-trip.  For every input D of values in [-32768, 32767],
\* decompileDeltas_(len(D), compileDeltaValues_(D), 0) returns D and an
\* offset equal to the length of the encoded bytes; no call raises.
DeltaRoundTrip ==
  /\ pc # "raised"
  /\ pc = "done" =>
       /\ ret.ok
       /\ ret.result = deltas
       /\ ret.pos = Len(stream)
       /\ compileDeltaValues_(deltas) = [ok |-> TRUE, err |-> "", data |-> stream]
       /\ decompileDeltas_(Len(deltas), stream, 0) =
            [ok |-> TRUE, err |-> "", result |-> deltas, pos |-> Len(stream)]

\* a decoded stream of at least three runs holding a zero, a negative byte
\* value and a negative word value
DeltaRoundTripWitness ==
  /\ pc = "done"
  /\ ret.ok /\ ret.result = deltas /\ ret.pos = Len(stream)
  /\ Len(runs) >= 3
  /\ \E i, j, k \in 1..Len(deltas) :
       deltas[i] = 0 /\ deltas[j] = -128 /\ deltas[k] = -129

RunLen(r) == r.pos - r.offset
RunIsZero(r) == r.written[1] >= 128
RunIsWords(r) == r.written[1] < 128 /\ r.written[1] >= 64
RunIsBytes(r) == r.written[1] < 64

\* C7: well-formed delta run headers.  In every state of the loop each run
\* written so far covers 1..64 values, runs are contiguous from position 0
\* up to pos, the header's low 6 bits are runLength - 1, no header has both
\* 0x80 and 0x40, the payload is 0, runLength or 2*runLength bytes by run
\* kind, and once the loop has ended pos = len(deltas).
DeltaRunsWellFormed ==
  /\ pc # "raised"
  /\ \A i \in 1..Len(runs) :
       LET r == runs[i]
           h == r.written[1]
       IN /\ RunLen(r) \in 1..64
          /\ r.offset = (IF i = 1 THEN 0 ELSE runs[i - 1].pos)
          /\ h \in 0..255
          /\ h % 64 = RunLen(r) - 1
          /\ ~(h >= 192)
          /\ Len(r.written) =
               (IF h >= 128 THEN 1
                ELSE IF h >= 64 THEN 1 + 2 * RunLen(r)
                ELSE 1 + RunLen(r))
  /\ (runs # <<>> => runs[Len(runs)].pos = pos)
  /\ (runs = <<>> => pos = 0)
  /\ (pc \in {"decompile", "done"} => pos = Len(deltas))

\* the loop has ended after a zero run of the full 64 values and two more runs
DeltaRunsWitness ==
  /\ pc = "decompile"
  /\ Len(runs) >= 3
  /\ RunIsZero(runs[1]) /\ RunLen(runs[1]) = 64
  /\ pos = Len(deltas)

\* where the byte run opened at `offset` has to end according to the rule:
\* the least index at which one of the four stop conditions holds
ByteRunStops(ds, offset) ==
  { i \in offset..Len(ds) :
      \/ i = offset + 64
      \/ i = Len(ds)
      \/ ds[i + 1] < -128 \/ ds[i + 1] > 127
      \/ (ds[i + 1] = 0 /\ i + 1 < Len(ds) /\ ds[i + 2] = 0) }

\* C8: byte-run zero rule.  Every byte run opened by the loop (at a value
\* that is non-zero and in [-128, 127]) ends at the first of: 64 values
\* taken, end of input, a value outside [-128, 127], two consecutive zeros;
\* its payload is the values literally; and the two quoted byte strings.
ByteRunZeroRule ==
  /\ \A i \in 1..Len(runs) :
       RunIsBytes(runs[i]) =>
         /\ deltas[runs[i].offset + 1] # 0
         /\ runs[i].pos \in ByteRunStops(deltas, runs[i].offset)
         /\ \A j \in ByteRunStops(deltas, runs[i].offset) : runs[i].pos <= j
         /\ \A j \in 1..RunLen(runs[i]) :
              runs[i].written[j + 1] = deltas[runs[i].offset + j] % 256
  /\ (pc = "decompile" /\ deltas = <<15, 15, 0, 15, 15>>
        => stream = <<4, 15, 15, 0, 15, 15>>)
  /\ (pc = "decompile" /\ deltas = <<15, 15, 0, 0, 15, 15>>
        => stream = <<1, 15, 15, 129, 1, 15, 15>>)

\* a byte run that keeps a single zero literally, in an input where another
\* byte run was ended by two consecutive zeros
ByteRunZeroWitness ==
  /\ pc = "decompile"
  /\ \E i \in 1..Len(runs) :
       /\ RunIsBytes(runs[i])
       /\ \E j \in 1..RunLen(runs[i]) : deltas[runs[i].offset + j] = 0
  /\ \E i \in 1..Len(runs) :
       /\ RunIsBytes(runs[i])
       /\ runs[i].pos + 1 < Len(deltas)
       /\ deltas[runs[i].pos + 1] = 0 /\ deltas[runs[i].pos + 2] = 0


(***************************************************************************)
(* Point-number encoder.                                                   *)
(***************************************************************************)
\* points = list(points); points.sort(): the element of rank i is the one
\* with i - 1 smaller elements
SortedList(S) ==
  LET rank == [x \in S |-> Cardinality({y \in S : y < x})]
  IN [i \in 1..Cardinality(S) |-> CHOOSE x \in S : rank[x] = i - 1]

\* the count prefix written by compilePoints
PointCountPrefix(n) ==
  IF n < 128 THEN <<n>> ELSE <<SetFlag(n \div 256, 128), n % 256>>

\* the header byte of a finished point run
PointRunHeader(runLength, useByteEncoding) ==
  IF useByteEncoding = "True"
  THEN runLength - 1
  ELSE SetFlag(runLength - 1, POINTS_ARE_WORDS)

\* the state of the inner while loop of compilePoints at the start of a run;
\* useByteEncoding is "None" until the first value of the run decides it
PointRunStart(p, lastValue) ==
  [ok |-> TRUE, broke |-> FALSE, pos |-> p, lastValue |-> lastValue,
   runLength |-> 0, useByteEncoding |-> "None", run |-> <<>>]

\* the condition of the inner while loop (no break or exception so far)
PointRunContinues(pts, s) ==
  s.ok /\ ~s.broke /\ s.pos < Len(pts) /\ s.runLength <= MAX_RUN_LENGTH

\* the body of the inner while loop
PointRunStep(pts, s) ==
  LET curValue == pts[s.pos + 1]
      delta == curValue - s.lastValue
      ube == IF s.useByteEncoding = "None"
             THEN (IF 0 <= delta /\ delta <= 255 THEN "True" ELSE "False")
             ELSE s.useByteEncoding
  IN IF ube = "True" /\ (delta > 255 \/ delta < 0)
     THEN [s EXCEPT !.broke = TRUE, !.useByteEncoding = ube]
     ELSE IF ube = "False" /\ (delta < 0 \/ delta >= 65536)
     THEN [s EXCEPT !.ok = FALSE, !.useByteEncoding = ube]
     ELSE [ok |-> TRUE, broke |-> FALSE, pos |-> s.pos + 1, lastValue |-> curValue,
           runLength |-> s.runLength + 1, useByteEncoding |-> ube,
           run |-> s.run \o (IF ube = "True" THEN <<delta>>
                             ELSE <<delta \div 256, delta % 256>>)]

RECURSIVE PointRunIterate(_, _, _)
\* at most n iterations of the inner while loop
PointRunIterate(pts, s, n) ==
  IF n = 0 \/ ~PointRunContinues(pts, s) THEN s
  ELSE PointRunIterate(pts, PointRunStep(pts, s), n - 1)

RECURSIVE PointRunLoop(_, _)
\* the inner while loop of compilePoints, sixteen iterations at a time
PointRunLoop(pts, s) ==
  IF PointRunContinues(pts, s) THEN PointRunLoop(pts, PointRunIterate(pts, s, 16)) ELSE s

MutCompilePointsRun(pts, p, lastValue) == PointRunLoop(pts, PointRunStart(p, 0))
\* one iteration of the outer while loop of compilePoints, up to the end of
\* its inner loop: lastValue is carried over from the run before
CompilePointsRun(pts, p, lastValue) == PointRunLoop(pts, PointRunStart(p, lastValue))

RECURSIVE CompilePointsLoop(_, _, _, _)
CompilePointsLoop(pts, p, lastValue, res) ==
  IF p < Len(pts)
  THEN LET r == CompilePointsRun(pts, p, lastValue)
       IN IF r.ok
          THEN CompilePointsLoop(pts, r.pos, r.lastValue,
                                 res \o <<PointRunHeader(r.runLength, r.useByteEncoding)>>
                                     \o r.run)
          ELSE [ok |-> FALSE, err |-> "ValueError", data |-> res]
  ELSE [ok |-> TRUE, err |-> "", data |-> res]

\* compilePoints(points, numPointsInGlyph): the bytes, or the exception
compilePoints(pointSet, numPointsInGlyph) ==
  IF Cardinality(pointSet) = numPointsInGlyph
  THEN [ok |-> TRUE, err |-> "", data |-> <<0>>]
  ELSE IF Cardinality(pointSet) >= 65536
  THEN [ok |-> FALSE, err |-> "ValueError", data |-> <<>>]
  ELSE CompilePointsLoop(SortedList(pointSet), 0, 0,
                         PointCountPrefix(Cardinality(pointSet)))

(***************************************************************************)
(* Point-number decoder.                                                   *)
(***************************************************************************)
\* decompilePoints_ up to the test of numPointsInData
DecompilePointsPrefix(d, offset) ==
  IF offset >= Len(d)
  THEN [ok |-> FALSE, err |-> "IndexError", numPointsInData |-> 0, pos |-> offset]
  ELSE IF HasFlag(d[offset + 1], POINTS_ARE_WORDS)
  THEN IF offset + 1 >= Len(d)
       THEN [ok |-> FALSE, err |-> "IndexError", numPointsInData |-> 0,
             pos |-> offset + 1]
       ELSE [ok |-> TRUE, err |-> "",
             numPointsInData |->
               LowBits(d[offset + 1], POINT_RUN_COUNT_MASK) * 256 + d[offset + 2],
             pos |-> offset + 2]
  ELSE [ok |-> TRUE, err |-> "", numPointsInData |-> d[offset + 1], pos |-> offset + 1]

\* one iteration of the while loop of decompilePoints_
DecompilePointsStep(d, p, res) ==
  IF p >= Len(d)
  THEN [ok |-> FALSE, err |-> "IndexError", pos |-> p, result |-> res]
  ELSE
    LET runHeader == d[p + 1]
        numPointsInRun == LowBits(runHeader, POINT_RUN_COUNT_MASK) + 1
        isWords == HasFlag(runHeader, POINTS_ARE_WORDS)
        pointsSize == IF isWords THEN numPointsInRun * 2 ELSE numPointsInRun
        raw == Slice(d, p + 1, p + 1 + pointsSize)
    IN IF isWords /\ Len(raw) % 2 = 1
       THEN [ok |-> FALSE, err |-> "ValueError", pos |-> p + 1, result |-> res]
       ELSE IF Len(raw) # pointsSize
       THEN [ok |-> FALSE, err |-> "AssertionError", pos |-> p + 1, result |-> res]
       ELSE [ok |-> TRUE, err |-> "", pos |-> p + 1 + pointsSize,
             result |-> res \o
               [i \in 1..numPointsInRun |->
                  IF isWords THEN raw[2 * i - 1] * 256 + raw[2 * i] ELSE raw[i]]]

RECURSIVE AbsoluteRange(_, _, _, _)
\* the running sums of rel[lo..hi] on top of `current`, by halves
AbsoluteRange(rel, lo, hi, current) ==
  IF lo > hi THEN <<>>
  ELSE IF lo = hi THEN <<current + rel[lo]>>
  ELSE LET mid == (lo + hi) \div 2
           left == AbsoluteRange(rel, lo, mid, current)
       IN left \o AbsoluteRange(rel, mid + 1, hi, left[Len(left)])

\* "Convert relative to absolute": the running sum of the whole list
Absolute(rel) == AbsoluteRange(rel, 1, Len(rel), 0)

\* decompilePoints_ after its while loop; k is numPointsInData
DecompilePointsFinish(k, res, p) ==
  [ok |-> TRUE, err |-> "", result |-> Absolute(res), pos |-> p]

RECURSIVE DecompilePointsLoop(_, _, _, _)
DecompilePointsLoop(k, d, p, res) ==
  IF Len(res) < k
  THEN LET r == DecompilePointsStep(d, p, res)
       IN IF r.ok THEN DecompilePointsLoop(k, d, r.pos, r.result)
          ELSE [ok |-> FALSE, err |-> r.err, result |-> r.result, pos |-> r.pos]
  ELSE DecompilePointsFinish(k, res, p)

\* decompilePoints_(numPoints, data, offset, tableTag): (points, pos), or
\* the exception
decompilePoints_(n, d, offset) ==
  LET pre == DecompilePointsPrefix(d, offset)
  IN IF ~pre.ok
     THEN [ok |-> FALSE, err |-> pre.err, result |-> <<>>, pos |-> pre.pos]
     ELSE IF pre.numPointsInData = 0
     THEN [ok |-> TRUE, err |-> "", result |-> [i \in 1..n |-> i - 1], pos |-> pre.pos]
     ELSE DecompilePointsLoop(pre.numPointsInData, d, pre.pos, <<>>)


(***************************************************************************)
(* Inputs of the point codec.  Point sets: every subset of [0, N) for      *)
(* N <= MaxN; sets built from short lists of gaps around the byte/word     *)
(* limit (255, 256); long arithmetic stretches around the 128-point run    *)
(* limit and the one-byte count limit; and unions of two stretches, which  *)
(* put a word-sized gap between byte-sized ones.  Raw byte strings for the *)
(* decoder alone: every string of at most MaxRaw bytes over PointBytes.    *)
(***************************************************************************)
MaxN == 4
MaxRaw == 5
RawNumPoints == 4

SetMax(S) == CHOOSE x \in S : \A y \in S : y <= x

SmallPointInputs ==
  UNION { { [points |-> S, n |-> N] : S \in SUBSET (0..(N - 1)) } : N \in 0..MaxN }

RECURSIVE FromGaps(_, _, _)
\* the set of partial sums of a list of gaps
FromGaps(gaps, i, last) ==
  IF i > Len(gaps) THEN {}
  ELSE {last + gaps[i]} \cup FromGaps(gaps, i + 1, last + gaps[i])

GapPointInputs ==
  { [points |-> FromGaps(g, 1, 0), n |-> SetMax(FromGaps(g, 1, 0)) + 1 + extra] :
      g \in (UNION {[1..k -> {1, 255, 256}] : k \in 1..3}), extra \in {0, 1} }

Stretch(first, gap, count) == { first + i * gap : i \in 0..(count - 1) }

LongPointSets ==
  { Stretch(f, g, c) : f \in {0, 300}, g \in {1, 2}, c \in {127, 128, 129, 257} }
  \cup { Stretch(f, 256, c) : f \in {0, 300}, c \in {128, 129} }
  \cup { Stretch(0, 1, c) \cup Stretch(1000, 1, d) : c \in {3, 130}, d \in {2, 129, 140} }

LongPointInputs ==
  { [points |-> S, n |-> SetMax(S) + 1 + extra] : S \in LongPointSets, extra \in {0, 1} }

PointInputs == SmallPointInputs \cup GapPointInputs \cup LongPointInputs

PointBytes == {0, 1, 2, 128, 129}

RawPointInputs == SeqsUpTo(PointBytes, MaxRaw)

InitPoints ==
  /\ deltas = <<>>
  /\ pos = 0
  /\ stream = <<>>
  /\ runs = <<>>
  /\ result = <<>>
  /\ rpos = 0
  /\ numPointsInData = 0
  /\ ret = NoRet
  /\ tv = NoTV
  /\ ctx = NoCtx
  /\ compiled = NoRet
  /\ decoded = NoRet
  /\ \/ /\ pc = "compilePoints"
        /\ \E in \in PointInputs : points = in.points /\ numPoints = in.n
        /\ data = <<>>
     \/ /\ pc = "decompilePoints"
        /\ points = {}
        /\ numPoints = RawNumPoints
        /\ data \in RawPointInputs

\* compilePoints(points, numPointsInGlyph); its bytes go to decompilePoints_
CompilePoints ==
  /\ pc = "compilePoints"
  /\ compiled' = compilePoints(points, numPoints)
  /\ IF compiled'.ok
     THEN pc' = "decompilePoints" /\ data' = compiled'.data
     ELSE pc' = "raised" /\ data' = data
  /\ UNCHANGED <<deltaVars, result, rpos, pointVars, ret, tv, ctx, decoded>>

\* decompilePoints_(numPoints, data, 0, tag) up to its while loop
DecodePointsPrefix ==
  /\ pc = "decompilePoints"
  /\ LET pre == DecompilePointsPrefix(data, 0)
     IN IF ~pre.ok
        THEN /\ pc' = "raised"
             /\ ret' = [ok |-> FALSE, err |-> pre.err]
             /\ UNCHANGED <<result, rpos, numPointsInData>>
        ELSE /\ numPointsInData' = pre.numPointsInData
             /\ rpos' = pre.pos
             /\ result' = <<>>
             /\ IF pre.numPointsInData = 0
                THEN /\ pc' = "done"
                     /\ ret' = [ok |-> TRUE, err |-> "",
                                result |-> [i \in 1..numPoints |-> i - 1],
                                pos |-> pre.pos]
                ELSE /\ pc' = "pointRuns"
                     /\ ret' = ret
  /\ UNCHANGED <<deltaVars, data, points, numPoints, tupleVars>>

DecodePointRun ==
  /\ pc = "pointRuns"
  /\ Len(result) < numPointsInData
  /\ LET r == DecompilePointsStep(data, rpos, result)
     IN IF r.ok
        THEN /\ result' = r.result
             /\ rpos' = r.pos
             /\ UNCHANGED <<pc, ret>>
        ELSE /\ pc' = "raised"
             /\ ret' = [ok |-> FALSE, err |-> r.err]
             /\ UNCHANGED <<result, rpos>>
  /\ UNCHANGED <<deltaVars, data, pointVars, tupleVars>>

DecompilePointsReturn ==
  /\ pc = "pointRuns"
  /\ ~(Len(result) < numPointsInData)
  /\ pc' = "done"
  /\ ret' = DecompilePointsFinish(numPointsInData, result, rpos)
  /\ UNCHANGED <<deltaVars, data, result, rpos, pointVars, tupleVars>>

NextPoints ==
  \/ CompilePoints
  \/ DecodePointsPrefix
  \/ DecodePointRun
  \/ DecompilePointsReturn

SpecPoints == InitPoints /\ [][NextPoints]_vars

(***************************************************************************)
(* Properties of the point codec.                                          *)
(***************************************************************************)
IsAscending(s) == \A i \in 1..(Len(s) - 1) : s[i] < s[i + 1]
Elements(s) == { s[i] : i \in 1..Len(s) }

\* C2: point-set round-trip.  For every non-empty S within [0, N),
\* compilePoints succeeds and decompilePoints_(N, compilePoints(S, N), 0)
\* returns the elements of S in ascending order and the length of the
\* encoded bytes as offset; no call raises on the way.
PointRoundTrip ==
  compiled # NoRet /\ points # {} =>
    /\ compiled.ok
    /\ pc # "raised"
    /\ pc = "done" =>
         /\ ret.ok
         /\ Len(ret.result) = Cardinality(points)
         /\ Elements(ret.result) = points
         /\ IsAscending(ret.result)
         /\ ret.pos = Len(compiled.data)
         /\ decompilePoints_(numPoints, compiled.data, 0) = ret

\* a decoded set of more than 128 points, not all points, whose encoding
\* holds a byte run followed by a word run (a gap of 256 or more)
PointRoundTripWitness ==
  /\ pc = "done"
  /\ compiled # NoRet /\ compiled.ok
  /\ Cardinality(points) > 128
  /\ Cardinality(points) < numPoints
  /\ ret.ok /\ Elements(ret.result) = points /\ ret.pos = Len(compiled.data)
  /\ \E i \in 2..(Len(ret.result) - 1) :
       /\ ret.result[i] - ret.result[i - 1] <= 255
       /\ ret.result[i + 1] - ret.result[i] >= 256

\* C9: the point decoder honours the count prefix.  Whenever decompilePoints_
\* returns with a non-zero count prefix k, the returned list has exactly k
\* elements, the running sum of the first k decoded deltas.
PointCountHonoured ==
  pc = "done" /\ ret.ok /\ numPointsInData # 0 =>
    /\ Len(ret.result) = numPointsInData
    /\ ret.result = Absolute(SubSeq(result, 1, numPointsInData))

\* C10: the all-points shortcut is unambiguous.  For N >= 1 and S within
\* [0, N), compilePoints(S, N) is the single byte 0x00 exactly when S is
\* the set of all N points, and no other subset of [0, N) compiles to the
\* same bytes as S.
AllPointsUnambiguous ==
  compiled # NoRet /\ compiled.ok /\ numPoints >= 1 =>
    /\ (compiled.data = <<0>>) <=> (points = 0..(numPoints - 1))
    /\ numPoints <= MaxN =>
         \A S \in SUBSET (0..(numPoints - 1)) :
            S # points => compilePoints(S, numPoints).data # compiled.data


\* among the non-empty subsets of [0, N) the encoding is unambiguous: only
\* the set of all points compiles to 0x00 and no two sets share their bytes
NonEmptyPointsUnambiguous ==
  compiled # NoRet /\ compiled.ok /\ numPoints >= 1 /\ points # {} =>
    /\ (compiled.data = <<0>>) <=> (points = 0..(numPoints - 1))
    /\ numPoints <= MaxN =>
         \A S \in (SUBSET (0..(numPoints - 1))) \ {{}} :
            S # points => compilePoints(S, numPoints).data # compiled.data

(***************************************************************************)
(* TupleVariation.                                                         *)
(*                                                                         *)
(* A float axis value is held as its number of 1/32768 units, so that the  *)
(* values exactly representable in F2DOT14 are the even ones.  An entry of *)
(* coordinates is a record [kind, x, y]: kind "None" (unset), "tuple" (a   *)
(* pair (x, y)) or "int" (one integer x).  axes is a function from axis    *)
(* tags to <<minValue, value, maxValue>>.                                  *)
(***************************************************************************)
None == [kind |-> "None", x |-> 0, y |-> 0]
Pair(dx, dy) == [kind |-> "tuple", x |-> dx, y |-> dy]
Scalar(v) == [kind |-> "int", x |-> v, y |-> 0]

Min(a, b) == IF a < b THEN a ELSE b
Max(a, b) == IF a > b THEN a ELSE b

\* floatToFixed(value, 14): round(value * 2^14)
floatToFixed(h) == IF h >= 0 THEN (h + 1) \div 2 ELSE -((1 - h) \div 2)
\* fixedToFloat(value, 14): value / 2^14
fixedToFloat(v) == 2 * v

\* self.axes.get(axis, (0.0, 0.0, 0.0))
AxesGet(axes, axis) == IF axis \in DOMAIN axes THEN axes[axis] ELSE <<0, 0, 0>>

getUsedPoints(t) ==
  { i - 1 : i \in { j \in 1..Len(t.coordinates) : t.coordinates[j].kind # "None" } }

hasImpact(t) == \E i \in 1..Len(t.coordinates) : t.coordinates[i].kind # "None"

compileCoord(t, axisTags) ==
  Concat([i \in 1..Len(axisTags) |->
            PackSignedWord(floatToFixed(AxesGet(t.axes, axisTags[i])[2]))],
         Len(axisTags))

\* the first loop of compileIntermediateCoord
IntermediateNeeded(t, axisTags) ==
  \E i \in 1..Len(axisTags) :
    LET r == AxesGet(t.axes, axisTags[i])
    IN r[1] # Min(r[2], 0) \/ r[3] # Max(r[2], 0)

\* compileIntermediateCoord, when it does not return None
compileIntermediateCoord(t, axisTags) ==
  Concat([i \in 1..Len(axisTags) |->
            PackSignedWord(floatToFixed(AxesGet(t.axes, axisTags[i])[1]))],
         Len(axisTags))
  \o Concat([i \in 1..Len(axisTags) |->
               PackSignedWord(floatToFixed(AxesGet(t.axes, axisTags[i])[3]))],
            Len(axisTags))

RECURSIVE decompileCoord_(_, _, _, _)
\* decompileCoord_(axisTags, data, offset), from axis number i on: the
\* decoded values by axis number, and the new position
decompileCoord_(axisTags, d, p, i) ==
  IF i > Len(axisTags) THEN [ok |-> TRUE, coord |-> <<>>, pos |-> p]
  ELSE IF Len(Slice(d, p, p + 2)) # 2 THEN [ok |-> FALSE, coord |-> <<>>, pos |-> p]
  ELSE LET rest == decompileCoord_(axisTags, d, p + 2, i + 1)
       IN [ok |-> rest.ok,
           coord |-> <<fixedToFloat(UnpackSignedWord(d[p + 1], d[p + 2]))>> \o rest.coord,
           pos |-> rest.pos]

RECURSIVE CompileDeltasLoop(_, _, _, _, _)
\* the for loop of compileDeltas over the sorted points
CompileDeltasLoop(coordinates, sorted, i, deltaX, deltaY) ==
  IF i > Len(sorted) THEN [ok |-> TRUE, err |-> "", deltaX |-> deltaX, deltaY |-> deltaY]
  ELSE IF sorted[i] >= Len(coordinates)
  THEN [ok |-> FALSE, err |-> "IndexError", deltaX |-> deltaX, deltaY |-> deltaY]
  ELSE LET c == coordinates[sorted[i] + 1]
       IN IF c.kind = "None"
          THEN CompileDeltasLoop(coordinates, sorted, i + 1, deltaX, deltaY)
          ELSE IF c.kind = "int"
          THEN [ok |-> FALSE, err |-> "TypeError", deltaX |-> deltaX, deltaY |-> deltaY]
          ELSE CompileDeltasLoop(coordinates, sorted, i + 1,
                                 Append(deltaX, c.x), Append(deltaY, c.y))

\* compileDeltas(points): the bytes, or the exception
compileDeltas(t, pointSet) ==
  LET r == CompileDeltasLoop(t.coordinates, SortedList(pointSet), 1, <<>>, <<>>)
  IN IF ~r.ok THEN [ok |-> FALSE, err |-> r.err, data |-> <<>>]
     ELSE LET X == compileDeltaValues_(r.deltaX)
              Y == compileDeltaValues_(r.deltaY)
          IN IF X.ok /\ Y.ok
             THEN [ok |-> TRUE, err |-> "", data |-> X.data \o Y.data]
             ELSE [ok |-> FALSE, err |-> "AssertionError", data |-> <<>>]

\* the auxData of compile, with the flag it sets
CompileAuxData(t, sharedPoints) ==
  IF sharedPoints.given
  THEN [flag |-> 0, pointData |-> <<>>, deltaData |-> compileDeltas(t, sharedPoints.points)]
  ELSE [flag |-> PRIVATE_POINT_NUMBERS,
        pointData |-> compilePoints(getUsedPoints(t), Len(t.coordinates)).data,
        deltaData |-> compileDeltas(t, getUsedPoints(t))]

Raised(e) == [ok |-> FALSE, err |-> e, header |-> <<>>, auxData |-> <<>>]

\* compile(axisTags, sharedCoordIndices, sharedPoints): (tupleData, auxData),
\* or the exception
compile(t, axisTags, sharedCoordIndices, sharedPoints) ==
  IF ~(\A tag \in DOMAIN t.axes : \E i \in 1..Len(axisTags) : axisTags[i] = tag)
  THEN Raised("AssertionError")
  ELSE
    LET coord == compileCoord(t, axisTags)
        shared == coord \in DOMAIN sharedCoordIndices
        flags0 == IF shared THEN sharedCoordIndices[coord] ELSE EMBEDDED_PEAK_TUPLE
        tupleData0 == IF shared THEN <<>> ELSE coord
        needed == IntermediateNeeded(t, axisTags)
        flags1 == IF needed THEN SetFlag(flags0, INTERMEDIATE_REGION) ELSE flags0
        tupleData1 == IF needed THEN tupleData0 \o compileIntermediateCoord(t, axisTags)
                      ELSE tupleData0
        aux == CompileAuxData(t, sharedPoints)
        flags == IF sharedPoints.given THEN flags1
                 ELSE SetFlag(flags1, PRIVATE_POINT_NUMBERS)
        auxData == aux.pointData \o aux.deltaData.data
    IN IF ~aux.deltaData.ok THEN Raised(aux.deltaData.err)
       ELSE IF Len(auxData) > 65535 \/ flags > 65535 THEN Raised("struct.error")
       ELSE [ok |-> TRUE, err |-> "",
             header |-> <<Len(auxData) \div 256, Len(auxData) % 256,
                          flags \div 256, flags % 256>> \o tupleData1,
             auxData |-> auxData]

MutGetTupleSize_(flags, axisCount) ==
  4 + (IF HasFlag(flags, EMBEDDED_PEAK_TUPLE) THEN axisCount * 2 ELSE 0)
    + (IF HasFlag(flags, INTERMEDIATE_REGION) THEN axisCount * 2 ELSE 0)
getTupleSize_(flags, axisCount) ==
  4 + (IF HasFlag(flags, EMBEDDED_PEAK_TUPLE) THEN axisCount * 2 ELSE 0)
    + (IF HasFlag(flags, INTERMEDIATE_REGION) THEN axisCount * 4 ELSE 0)


(***************************************************************************)
(* Decoding of a compiled (header, auxData) pair, in the steps the table   *)
(* reader takes: flags, peak and intermediate coordinates, point set,      *)
(* X and Y delta streams, then coordinates assigned at the decoded points. *)
(***************************************************************************)
HeaderFlags(header) == header[3] * 256 + header[4]

\* the peak and intermediate tuples of a header; pos is the number of
\* header bytes consumed
DecodeHeader(header, axisTags, sharedCoordIndices) ==
  LET flags == HeaderFlags(header)
      embedded == HasFlag(flags, EMBEDDED_PEAK_TUPLE)
      peakRead == decompileCoord_(axisTags, header, 4, 1)
      sharedBytes == CHOOSE c \in DOMAIN sharedCoordIndices :
                        sharedCoordIndices[c] = flags % 4096
      peak == IF embedded THEN peakRead
              ELSE [ok |-> TRUE, coord |-> decompileCoord_(axisTags, sharedBytes, 0, 1).coord,
                    pos |-> 4]
      minRead == decompileCoord_(axisTags, header, peak.pos, 1)
      maxRead == decompileCoord_(axisTags, header, minRead.pos, 1)
  IN IF ~peak.ok THEN [ok |-> FALSE, axes |-> <<>>, pos |-> peak.pos]
     ELSE IF HasFlag(flags, INTERMEDIATE_REGION)
     THEN [ok |-> minRead.ok /\ maxRead.ok,
           axes |-> [i \in 1..Len(axisTags) |->
                       IF minRead.ok /\ maxRead.ok
                       THEN <<minRead.coord[i], peak.coord[i], maxRead.coord[i]>>
                       ELSE <<0, 0, 0>>],
           pos |-> maxRead.pos]
     ELSE [ok |-> TRUE,
           axes |-> [i \in 1..Len(axisTags) |->
                       <<Min(peak.coord[i], 0), peak.coord[i], Max(peak.coord[i], 0)>>],
           pos |-> peak.pos]

\* the coordinates of length n, all unset, with (x, y) assigned at the points
AssignDeltas(n, pts, X, Y) ==
  [i \in 1..n |->
     IF \E k \in 1..Len(pts) : pts[k] = i - 1
     THEN LET k == CHOOSE k \in 1..Len(pts) : pts[k] = i - 1
          IN Pair(X[k], Y[k])
     ELSE None]

NotDecoded(e) == [ok |-> FALSE, err |-> e, axes |-> <<>>, coordinates |-> <<>>]

decompile(header, auxData, axisTags, n, sharedCoordIndices, sharedPoints) ==
  LET flags == HeaderFlags(header)
      head == DecodeHeader(header, axisTags, sharedCoordIndices)
      pts == IF HasFlag(flags, PRIVATE_POINT_NUMBERS)
             THEN decompilePoints_(n, auxData, 0)
             ELSE [ok |-> TRUE, err |-> "", result |-> SortedList(sharedPoints.points),
                   pos |-> 0]
      X == decompileDeltas_(Len(pts.result), auxData, pts.pos)
      Y == decompileDeltas_(Len(pts.result), auxData, X.pos)
  IN IF ~head.ok THEN NotDecoded("struct.error")
     ELSE IF ~pts.ok THEN NotDecoded(pts.err)
     ELSE IF ~X.ok THEN NotDecoded(X.err)
     ELSE IF ~Y.ok THEN NotDecoded(Y.err)
     ELSE [ok |-> TRUE, err |-> "", axes |-> head.axes,
           coordinates |-> AssignDeltas(n, pts.result, X.result, Y.result)]

(***************************************************************************)
(* Inputs of compile.  Coordinates: every vector of at most MaxCoords      *)
(* entries that are unset or pairs, every such vector of unset entries and *)
(* integers, and the vector [1, 2, 3].  Axes over the tags wght and wdth   *)
(* with peak-only and intermediate regions; axis orderings with one and    *)
(* two tags; sharedCoordIndices empty or holding the peak tuple 1.0 (and   *)
(* 0.0 for a second axis) at index 0 or 4095; sharedPoints None or any     *)
(* subset of [0, N).                                                       *)
(***************************************************************************)
MaxCoords == 2

GvarEntries == { None, Pair(0, 0), Pair(1, -129) }
CvarEntries == { None, Scalar(1), Scalar(2) }

CoordinateInputs ==
  (UNION { [1..n -> GvarEntries] : n \in 0..MaxCoords })
  \cup (UNION { [1..n -> CvarEntries] : n \in 0..MaxCoords })
  \cup { <<Scalar(1), Scalar(2), Scalar(3)>> }

WghtRegions == { <<0, 32768, 32768>>, <<-16384, 32768, 32768>>,
                 <<-32768, -32768, 0>>, <<0, 0, 0>> }
WdthRegions == { <<0, 0, 0>>, <<0, 16384, 32768>> }

AxesInputs ==
  { <<>> }
  \cup { [a \in {"wght"} |-> r] : r \in WghtRegions }
  \cup { [a \in {"wdth"} |-> <<0, 16384, 16384>>] }
  \cup { [a \in {"wght", "wdth"} |-> IF a = "wght" THEN r ELSE q] :
           r \in WghtRegions, q \in WdthRegions }

AxisTagsInputs == { <<"wght">>, <<"wght", "wdth">> }

\* the bytes of the peak tuple 1.0 (0.0 on further axes) under axisTags
SharedPeak(axisTags) ==
  compileCoord([axes |-> [a \in {"wght"} |-> <<0, 32768, 32768>>], coordinates |-> <<>>],
               axisTags)

SharedCoordInputs(axisTags) ==
  { <<>> } \cup { [c \in {SharedPeak(axisTags)} |-> idx] : idx \in {0, 4095} }

SharedPointsInputs(n) ==
  { [given |-> FALSE, points |-> {}] }
  \cup { [given |-> TRUE, points |-> P] : P \in SUBSET (0..(n - 1)) }

InitTuple ==
  /\ pc = "compile"
  /\ deltas = <<>>
  /\ pos = 0
  /\ stream = <<>>
  /\ runs = <<>>
  /\ data = <<>>
  /\ result = <<>>
  /\ rpos = 0
  /\ points = {}
  /\ numPoints = 0
  /\ numPointsInData = 0
  /\ ret = NoRet
  /\ \E a \in AxesInputs, c \in CoordinateInputs : tv = [axes |-> a, coordinates |-> c]
  /\ \E tags \in AxisTagsInputs :
       \E sci \in SharedCoordInputs(tags), sp \in SharedPointsInputs(Len(tv.coordinates)) :
         ctx = [axisTags |-> tags, sharedCoordIndices |-> sci, sharedPoints |-> sp]
  /\ compiled = NoRet
  /\ decoded = NoRet

\* tv.compile(axisTags, sharedCoordIndices, sharedPoints)
Compile ==
  /\ pc = "compile"
  /\ compiled' = compile(tv, ctx.axisTags, ctx.sharedCoordIndices, ctx.sharedPoints)
  /\ pc' = IF compiled'.ok THEN "compiled" ELSE "raised"
  /\ UNCHANGED <<deltaVars, data, result, rpos, pointVars, ret, tv, ctx, decoded>>

\* the table reader decodes what compile returned
Decompile ==
  /\ pc = "compiled"
  /\ decoded' = decompile(compiled.header, compiled.auxData, ctx.axisTags,
                          Len(tv.coordinates), ctx.sharedCoordIndices, ctx.sharedPoints)
  /\ pc' = "decoded"
  /\ UNCHANGED <<deltaVars, data, result, rpos, pointVars, ret, tv, ctx, compiled>>

NextTuple ==
  \/ Compile
  \/ Decompile

SpecTuple == InitTuple /\ [][NextTuple]_vars


(***************************************************************************)
(* Properties of compile.                                                  *)
(***************************************************************************)
AxesKnown == \A tag \in DOMAIN tv.axes : \E i \in 1..Len(ctx.axisTags) : ctx.axisTags[i] = tag
IsGvar(t) == \A i \in 1..Len(t.coordinates) : t.coordinates[i].kind # "int"
IsCvar(t) ==
  /\ \A i \in 1..Len(t.coordinates) : t.coordinates[i].kind # "tuple"
  /\ \E i \in 1..Len(t.coordinates) : t.coordinates[i].kind = "int"

\* the decoded TupleVariation has the axes and the coordinates of tv
DecodedIsTv ==
  /\ decoded.ok
  /\ decoded.coordinates = tv.coordinates
  /\ \A i \in 1..Len(ctx.axisTags) : decoded.axes[i] = AxesGet(tv.axes, ctx.axisTags[i])

\* C3: full round-trip.  For every TupleVariation with known axes whose
\* coordinates are unset or (dx, dy) pairs, the all-unset vector included,
\* compiled with private point numbers, compile succeeds and decoding the
\* (header, auxData) pair gives back the same axes and coordinates.
TupleRoundTrip ==
  AxesKnown /\ IsGvar(tv) /\ ~ctx.sharedPoints.given =>
    /\ pc # "raised"
    /\ pc = "decoded" => DecodedIsTv

\* the round-trip does hold when some coordinate is set, or there is none
TupleRoundTripWithImpact ==
  AxesKnown /\ IsGvar(tv) /\ ~ctx.sharedPoints.given
    /\ (hasImpact(tv) \/ tv.coordinates = <<>>) =>
    /\ pc # "raised"
    /\ pc = "decoded" => DecodedIsTv

\* C4: header size law.  Whenever compile succeeds, getTupleSize_ of the
\* flags in the header and the axis count is the byte length of the header,
\* which is the number of header bytes decoding consumes.
TupleSizeLaw ==
  pc \in {"compiled", "decoded"} =>
    /\ compiled.ok
    /\ getTupleSize_(HeaderFlags(compiled.header), Len(ctx.axisTags)) = Len(compiled.header)
    /\ DecodeHeader(compiled.header, ctx.axisTags, ctx.sharedCoordIndices).ok
    /\ DecodeHeader(compiled.header, ctx.axisTags, ctx.sharedCoordIndices).pos
         = Len(compiled.header)

\* a compiled header over two axes with an embedded peak and an intermediate
\* region: 4 + 4 + 8 bytes
TupleSizeWitness ==
  /\ pc = "compiled"
  /\ compiled.ok
  /\ Len(ctx.axisTags) = 2
  /\ HasFlag(HeaderFlags(compiled.header), EMBEDDED_PEAK_TUPLE)
  /\ HasFlag(HeaderFlags(compiled.header), INTERMEDIATE_REGION)
  /\ Len(compiled.header) = 16

\* the X and Y streams read from auxData for k points
SharedStreams(k) ==
  LET X == decompileDeltas_(k, compiled.auxData, 0)
      Y == decompileDeltas_(k, compiled.auxData, X.pos)
  IN [ok |-> X.ok /\ Y.ok, X |-> X.result, Y |-> Y.result, pos |-> Y.pos]

\* C5: delta streams are sized by the active point set.  For a gvar
\* TupleVariation compiled with shared points P within [0, N), auxData has
\* no point numbers and decodes as exactly len(P) X deltas followed by
\* exactly len(P) Y deltas that take up all of auxData, the i-th of each
\* being the delta of the i-th smallest point of P where that one is set.
SharedPointDeltasSized ==
  pc # "compile" /\ AxesKnown /\ IsGvar(tv) /\ ctx.sharedPoints.given =>
    /\ compiled.ok
    /\ ~HasFlag(HeaderFlags(compiled.header), PRIVATE_POINT_NUMBERS)
    /\ LET P == SortedList(ctx.sharedPoints.points)
           S == SharedStreams(Len(P))
       IN /\ S.ok
          /\ Len(S.X) = Len(P) /\ Len(S.Y) = Len(P)
          /\ S.pos = Len(compiled.auxData)
          /\ \A i \in 1..Len(P) :
               tv.coordinates[P[i] + 1].kind = "tuple" =>
                 /\ S.X[i] = tv.coordinates[P[i] + 1].x
                 /\ S.Y[i] = tv.coordinates[P[i] + 1].y

\* the same holds when every point of P has its coordinate set
SharedPointDeltasSizedWhenSet ==
  pc # "compile" /\ AxesKnown /\ IsGvar(tv) /\ ctx.sharedPoints.given
    /\ ctx.sharedPoints.points \subseteq getUsedPoints(tv) =>
    /\ compiled.ok
    /\ LET P == SortedList(ctx.sharedPoints.points)
           S == SharedStreams(Len(P))
       IN /\ S.ok
          /\ S.pos = Len(compiled.auxData)
          /\ \A i \in 1..Len(P) :
                 /\ S.X[i] = tv.coordinates[P[i] + 1].x
                 /\ S.Y[i] = tv.coordinates[P[i] + 1].y

\* the active point set of compile
ActivePoints ==
  IF ctx.sharedPoints.given THEN ctx.sharedPoints.points ELSE getUsedPoints(tv)

\* the integers of tv at the set active points, ascending
CvarValues ==
  LET P == SortedList({ q \in ActivePoints : tv.coordinates[q + 1].kind = "int" })
  IN [i \in 1..Len(P) |-> tv.coordinates[P[i] + 1].x]

\* C6: cvar mode emits a single delta stream.  For a TupleVariation whose
\* set coordinates are single integers, compile succeeds and the delta part
\* of auxData (what follows the point numbers) is compileDeltaValues_ of
\* those integers at the active points in ascending order; deltas [1, 2, 3]
\* over all 3 points give 02 01 02 03.
CvarSingleStream ==
  pc # "compile" /\ AxesKnown /\ IsCvar(tv) =>
    /\ compiled.ok
    /\ LET pointData == IF ctx.sharedPoints.given THEN <<>>
                        ELSE compilePoints(getUsedPoints(tv), Len(tv.coordinates)).data
       IN compiled.auxData = pointData \o compileDeltaValues_(CvarValues).data
    /\ (tv.coordinates = <<Scalar(1), Scalar(2), Scalar(3)>> /\ ctx.sharedPoints.given
          /\ ctx.sharedPoints.points = {0, 1, 2}
        => compiled.auxData = <<2, 1, 2, 3>>)

=============================================================================
